---- MODULE Spec2Model ----
(***************************************************************************)
(* SIMD JSON functions of velox (SIMDJsonFunctions.h and                   *)
(* SimdJsonExtractor.cpp): path navigation over a parsed JSON document in  *)
(* the tree (simdjson::dom) and the streaming (simdjson::ondemand)         *)
(* backend, and the row functions built on them.                           *)
(*                                                                         *)
(* A JSON text is modelled by the syntax tree the parsers see, each scalar *)
(* keeping its source literal (raw) and whether the literal is a valid     *)
(* JSON atom (ok), each container keeping the place of a structural defect *)
(* (brk).  Output text is a TLA+ string built with \o.                      *)
(***************************************************************************)
EXTENDS Integers, Sequences, FiniteSets, TLC

\* One row of a function: the function, its arguments and its result.
VARIABLES fn, json, tokens, value, result
\* One function instance working through a batch: its token cache tokens_,
\* where the instance stands (pc), the operation it ran last (op) with the
\* path text it was given and the cache key it erased, the number of rows
\* evaluated and whether an earlier row of the batch failed to parse or
\* navigate.
VARIABLES tokensCache, pc, op, jsonPath, evicted, rows, afterFailure
\* Two instances on two threads: the static kTokenizer of tokenize they
\* share, and each thread's tokenization in progress.
VARIABLES kTokenizer, thread
\* One DeflateRleBpDecoder and the QPL job pool: the state of every job of
\* the pool, where the decoder stands in its operation, and how the last
\* processRun found the jobs.
VARIABLES qpl_job_pool, decoder, handed

rowVars == <<fn, json, tokens, value, result>>
cacheVars == <<tokensCache, pc, op, jsonPath, evicted, rows, afterFailure>>
threadVars == <<kTokenizer, thread>>
qplVars == <<qpl_job_pool, decoder, handed>>
vars ==
  <<fn, json, tokens, value, result, tokensCache, pc, op, jsonPath, evicted,
    rows, afterFailure, kTokenizer, thread, qpl_job_pool, decoder, handed>>

(***************************************************************************)
(* Bounds.                                                                 *)
(***************************************************************************)
\* Longest array / object of a document.
MaxLen == 2
\* Longest token sequence of a path.
MaxTokens == 3
\* Width of the modelled machine integers (int64_t / uint64_t scaled down).
IntBits == 3

(***************************************************************************)
(* JSON values.                                                            *)
(***************************************************************************)
Node(k, nt, v, s, raw, ok, keys, items, brk) ==
  [k |-> k, nt |-> nt, v |-> v, s |-> s, raw |-> raw, ok |-> ok,
   keys |-> keys, items |-> items, brk |-> brk]

\* Largest int64_t and largest uint64_t of the scaled width.
Int64Max == 2 ^ (IntBits - 1) - 1
UInt64Max == 2 ^ IntBits - 1

\* An integer literal: simdjson classifies it signed when it fits int64_t,
\* unsigned when it only fits uint64_t.
JInt(v) ==
  Node("number", IF v > Int64Max THEN "unsigned" ELSE "signed", v, "",
       ToString(v), TRUE, <<>>, <<>>, 0)
\* An integer literal one past the largest uint64_t: valid JSON that no
\* 64-bit integer holds.
JBig ==
  Node("number", "big", UInt64Max + 1, "", ToString(UInt64Max + 1), TRUE,
       <<>>, <<>>, 0)
\* A floating literal of integral value v written as raw.
JFlt(v, raw) == Node("number", "float", v, "", raw, TRUE, <<>>, <<>>, 0)
JStr(s) == Node("string", "none", 0, s, "\"" \o s \o "\"", TRUE, <<>>, <<>>, 0)
JBool(b) ==
  Node("boolean", "none", IF b THEN 1 ELSE 0, "",
       IF b THEN "true" ELSE "false", TRUE, <<>>, <<>>, 0)
JNull == Node("null", "none", 0, "", "null", TRUE, <<>>, <<>>, 0)
\* A malformed atom: its first character fixes the type the streaming parser
\* reports, the literal itself is not valid JSON ("tru", "1x", "nul").
JBad(k, raw) == Node(k, "none", 0, "", raw, FALSE, <<>>, <<>>, 0)
JArr(items) == Node("array", "none", 0, "", "", TRUE, <<>>, items, 0)
JObj(keys, items) == Node("object", "none", 0, "", "", TRUE, keys, items, 0)
\* The container c with the separator in front of its element j left out
\* ("[1 2]", "{"a":1 "b":2}"), 2 <= j <= Len(c.items).
Broken(c, j) == [c EXCEPT !.brk = j]

IsScalar(v) == v.k \in {"number", "string", "boolean", "null"}
IsContainer(v) == v.k \in {"object", "array"}

RECURSIVE WellFormed(_)
WellFormed(v) ==
  /\ v.ok
  /\ v.brk = 0
  /\ \A i \in 1..Len(v.items) : WellFormed(v.items[i])

(***************************************************************************)
(* Results.                                                                *)
(* st: "value" (present), "null" (absent / SQL NULL) or "error" (an        *)
(* exception leaves the function); err is the simdjson error code.         *)
(***************************************************************************)
Res(st, text, num, flag, err) ==
  [st |-> st, text |-> text, num |-> num, flag |-> flag, err |-> err]
Present(text) == Res("value", text, 0, FALSE, "")
Absent == Res("null", "", 0, FALSE, "")
Thrown(err) == Res("error", "", 0, FALSE, err)
NoResult == Res("none", "", 0, FALSE, "")

(***************************************************************************)
(* Text helpers.                                                           *)
(***************************************************************************)
\* std::string::find('/') from position i (1-based); 0 when there is none.
RECURSIVE FindSlash(_, _)
FindSlash(str, i) ==
  IF i > Len(str) THEN 0
  ELSE IF SubSeq(str, i, i) = "/" THEN i
  ELSE FindSlash(str, i + 1)

\* json_pointer[i] - '0' of a decimal digit, 10 for every other character.
DigitOf(c) ==
  CASE c = "0" -> 0 [] c = "1" -> 1 [] c = "2" -> 2 [] c = "3" -> 3
    [] c = "4" -> 4 [] c = "5" -> 5 [] c = "6" -> 6 [] c = "7" -> 7
    [] c = "8" -> 8 [] c = "9" -> 9 [] OTHER -> 10

\* A lookup outcome: err = "" and the value found, or an error code.
Found(v) == [err |-> "", val |-> v]
Failed(code) == [err |-> code, val |-> JNull]

\* The array index a JSON pointer segment denotes (array::at_pointer):
\* err is INCORRECT_TYPE for a non-digit, INVALID_JSON_POINTER for an empty
\* segment or a leading zero, INDEX_OUT_OF_BOUNDS for "-".
RECURSIVE ReadIndex(_, _, _)
ReadIndex(seg, i, acc) ==
  IF i > Len(seg) THEN [err |-> "", idx |-> acc]
  ELSE IF DigitOf(SubSeq(seg, i, i)) > 9
       THEN [err |-> "INCORRECT_TYPE", idx |-> 0]
       ELSE ReadIndex(seg, i + 1, acc * 10 + DigitOf(SubSeq(seg, i, i)))

PointerIndex(seg) ==
  IF seg = "-" THEN [err |-> "INDEX_OUT_OF_BOUNDS", idx |-> 0]
  ELSE LET r == ReadIndex(seg, 1, 0) IN
       IF r.err # "" THEN r
       ELSE IF Len(seg) > 1 /\ SubSeq(seg, 1, 1) = "0"
            THEN [err |-> "INVALID_JSON_POINTER", idx |-> 0]
       ELSE IF Len(seg) = 0
            THEN [err |-> "INVALID_JSON_POINTER", idx |-> 0]
       ELSE r

\* Position of the first field named key from position i on, 0 when none.
RECURSIVE KeyIndex(_, _, _)
KeyIndex(keys, key, i) ==
  IF i > Len(keys) THEN 0
  ELSE IF keys[i] = key THEN i
  ELSE KeyIndex(keys, key, i + 1)

(***************************************************************************)
(* Tree backend (simdjson::dom).                                           *)
(***************************************************************************)
\* No integer literal of v or below it is outside int64_t and uint64_t.
RECURSIVE Representable(_)
Representable(v) ==
  /\ v.nt # "big"
  /\ \A i \in 1..Len(v.items) : Representable(v.items[i])

\* ParserContext::parseElement: dom::parser::parse validates the whole text
\* and converts every number (stage 2), so an integer of more than 64 bits
\* is a NUMBER_ERROR although the text is valid JSON.
parseElement(doc) ==
  IF doc.stage1 \/ ~WellFormed(doc.root)
  THEN Failed("TAPE_ERROR")
  ELSE IF ~Representable(doc.root) THEN Failed("NUMBER_ERROR")
  ELSE Found(doc.root)

\* simdjson::to_string of a dom value: minified text, numbers re-serialized.
RECURSIVE to_string(_)
to_string(v) ==
  CASE v.k = "number" ->
         IF v.nt = "float" THEN ToString(v.v) \o ".0" ELSE ToString(v.v)
    [] v.k = "string" -> "\"" \o v.s \o "\""
    [] v.k = "boolean" -> IF v.v = 1 THEN "true" ELSE "false"
    [] v.k = "null" -> "null"
    [] v.k = "array" ->
         LET RECURSIVE Elems(_)
             Elems(i) ==
               IF i > Len(v.items) THEN ""
               ELSE (IF i > 1 THEN "," ELSE "") \o to_string(v.items[i])
                    \o Elems(i + 1)
         IN "[" \o Elems(1) \o "]"
    [] v.k = "object" ->
         LET RECURSIVE Fields(_)
             Fields(i) ==
               IF i > Len(v.items) THEN ""
               ELSE (IF i > 1 THEN "," ELSE "") \o "\"" \o v.keys[i] \o "\":"
                    \o to_string(v.items[i]) \o Fields(i + 1)
         IN "{" \o Fields(1) \o "}"

\* dom::element::at_pointer, dom::object::at_pointer, dom::array::at_pointer.
RECURSIVE domAtPointer(_, _)
domAtPointer(v, ptr) ==
  IF ptr = "" THEN Found(v)
  ELSE IF ~IsContainer(v) THEN Failed("INVALID_JSON_POINTER")
  ELSE IF SubSeq(ptr, 1, 1) # "/" THEN Failed("INVALID_JSON_POINTER")
  ELSE
    LET rest == SubSeq(ptr, 2, Len(ptr))
        slash == FindSlash(rest, 1)
        seg == IF slash = 0 THEN rest ELSE SubSeq(rest, 1, slash - 1)
        more == IF slash = 0 THEN "" ELSE SubSeq(rest, slash, Len(rest))
    IN IF v.k = "object"
       THEN LET i == KeyIndex(v.keys, seg, 1) IN
            IF i = 0 THEN Failed("NO_SUCH_FIELD")
            ELSE domAtPointer(v.items[i], more)
       ELSE LET r == PointerIndex(seg) IN
            IF r.err # "" THEN Failed(r.err)
            ELSE IF r.idx >= Len(v.items) THEN Failed("INDEX_OUT_OF_BOUNDS")
            ELSE domAtPointer(v.items[r.idx + 1], more)

\* tokens_[pathIndex] == "*"
IsWildcard(t) == t = "*"

RECURSIVE extractFromObject(_, _, _)
RECURSIVE extractFromArray(_, _, _)

\* extractFromObject without the rejection of "*": the token is looked up
\* as a field name.
extractFromObjectNoReject(pathIndex, obj, tokens_) ==
  IF pathIndex = Len(tokens_) THEN Present(to_string(obj))
  ELSE
    LET path == "/" \o tokens_[pathIndex + 1]
        rlt == domAtPointer(obj, path)
    IN IF rlt.err # "" THEN Absent
       ELSE IF rlt.val.k = "object"
            THEN extractFromObject(pathIndex + 1, rlt.val, tokens_)
       ELSE IF rlt.val.k = "array"
            THEN extractFromArray(pathIndex + 1, rlt.val, tokens_)
       ELSE Present(to_string(rlt.val))

\* extractFromObject whose lookup of a missing field gives the text "null"
\* in place of no result.
extractFromObjectMissAsNull(pathIndex, obj, tokens_) ==
  IF pathIndex = Len(tokens_) THEN Present(to_string(obj))
  ELSE IF IsWildcard(tokens_[pathIndex + 1]) THEN Absent
  ELSE
    LET path == "/" \o tokens_[pathIndex + 1]
        rlt == domAtPointer(obj, path)
    IN IF rlt.err # "" THEN Present("null")
       ELSE IF rlt.val.k = "object"
            THEN extractFromObject(pathIndex + 1, rlt.val, tokens_)
       ELSE IF rlt.val.k = "array"
            THEN extractFromArray(pathIndex + 1, rlt.val, tokens_)
       ELSE Present(to_string(rlt.val))

extractFromObject(pathIndex, obj, tokens_) ==
  IF pathIndex = Len(tokens_) THEN Present(to_string(obj))
  ELSE IF IsWildcard(tokens_[pathIndex + 1]) THEN Absent
  ELSE
    LET path == "/" \o tokens_[pathIndex + 1]
        rlt == domAtPointer(obj, path)
    IN IF rlt.err # "" THEN Absent
       ELSE IF rlt.val.k = "object"
            THEN extractFromObject(pathIndex + 1, rlt.val, tokens_)
       ELSE IF rlt.val.k = "array"
            THEN extractFromArray(pathIndex + 1, rlt.val, tokens_)
       ELSE Present(to_string(rlt.val))

extractFromArray(pathIndex, arr, tokens_) ==
  IF pathIndex = Len(tokens_) THEN Present(to_string(arr))
  ELSE IF IsWildcard(tokens_[pathIndex + 1]) THEN
    LET size == Len(arr.items)
        \* One pass of the for loop: rlt is the text built before element ii.
        RECURSIVE Loop(_, _)
        Loop(ii, rlt) ==
          IF ii > size THEN rlt
          ELSE
            LET a == arr.items[ii]
                sep == IF ii # size THEN "," ELSE ""
                rlt_tmp ==
                  IF a.k = "object"
                  THEN extractFromObject(pathIndex + 1, a, tokens_)
                  ELSE IF a.k = "array"
                  THEN extractFromArray(pathIndex + 1, a, tokens_)
                  ELSE Present(to_string(a))
                added ==
                  IF rlt_tmp.st = "value" THEN rlt \o rlt_tmp.text \o sep
                  ELSE rlt
                closed == IF ii = size THEN added \o "]" ELSE added
            IN Loop(ii + 1, closed)
    IN Present(Loop(1, "["))
  ELSE
    LET path == "/" \o tokens_[pathIndex + 1]
        rlt == domAtPointer(arr, path)
    IN IF rlt.err # "" THEN Absent
       ELSE IF rlt.val.k = "object"
            THEN extractFromObject(pathIndex + 1, rlt.val, tokens_)
       ELSE IF rlt.val.k = "array"
            THEN extractFromArray(pathIndex + 1, rlt.val, tokens_)
       ELSE Present(to_string(rlt.val))

\* extract: structural extraction through the tree backend.
extract(doc, tokens_) ==
  LET ele == parseElement(doc) IN
  IF ele.err # "" THEN Absent
  ELSE IF ele.val.k = "array" THEN extractFromArray(0, ele.val, tokens_)
  ELSE IF ele.val.k = "object" THEN extractFromObject(0, ele.val, tokens_)
  ELSE Absent

simdJsonExtractObject(doc, token) == extract(doc, token)

(***************************************************************************)
(* Streaming backend (simdjson::ondemand).                                 *)
(* iterate() only indexes the text: an invalid atom is reported when a     *)
(* typed getter reads it, a missing separator when the cursor reaches it;  *)
(* values that are skipped or copied as raw text are not validated.        *)
(***************************************************************************)
\* ParserContext::parseDocument: ondemand::parser::iterate.
parseDocument(doc) ==
  IF doc.stage1 THEN Failed("UNCLOSED_STRING") ELSE Found(doc.root)

\* Number of positions a range-for visits in container c: every element, or
\* the elements in front of the defect and the position that reports it.
OdCount(c) == IF c.brk = 0 THEN Len(c.items) ELSE c.brk

\* operator* of the iterator at position i of container c.
OdElem(c, i) ==
  IF c.brk # 0 /\ i >= c.brk THEN Failed("TAPE_ERROR") ELSE Found(c.items[i])

\* simdjson::to_json_string of an ondemand value: the value's source text
\* (raw_json), found by matching brackets only.
RECURSIVE to_json_string(_)
to_json_string(v) ==
  CASE v.k = "array" ->
         LET RECURSIVE Elems(_)
             Elems(i) ==
               IF i > Len(v.items) THEN ""
               ELSE (IF i = 1 THEN "" ELSE IF v.brk = i THEN " " ELSE ",")
                    \o to_json_string(v.items[i]) \o Elems(i + 1)
         IN "[" \o Elems(1) \o "]"
    [] v.k = "object" ->
         LET RECURSIVE Fields(_)
             Fields(i) ==
               IF i > Len(v.items) THEN ""
               ELSE (IF i = 1 THEN "" ELSE IF v.brk = i THEN " " ELSE ",")
                    \o "\"" \o v.keys[i] \o "\":"
                    \o to_json_string(v.items[i]) \o Fields(i + 1)
         IN "{" \o Fields(1) \o "}"
    [] OTHER -> v.raw

\* ondemand::object::find_field / ondemand::array::at behind at_pointer.
odFindField(obj, key) ==
  LET i == KeyIndex(obj.keys, key, 1) IN
  IF i # 0 /\ (obj.brk = 0 \/ i < obj.brk) THEN Found(obj.items[i])
  ELSE IF obj.brk # 0 THEN Failed("TAPE_ERROR")
  ELSE Failed("NO_SUCH_FIELD")

odAt(arr, index) ==
  IF index < OdCount(arr) THEN OdElem(arr, index + 1)
  ELSE Failed("INDEX_OUT_OF_BOUNDS")

\* ondemand::value::at_pointer, object::at_pointer, array::at_pointer on a
\* non-empty pointer.
RECURSIVE odAtPointer(_, _)
odAtPointer(v, ptr) ==
  IF ~IsContainer(v) THEN Failed("INVALID_JSON_POINTER")
  ELSE IF SubSeq(ptr, 1, 1) # "/" THEN Failed("INVALID_JSON_POINTER")
  ELSE
    LET rest == SubSeq(ptr, 2, Len(ptr))
        slash == FindSlash(rest, 1)
        seg == IF slash = 0 THEN rest ELSE SubSeq(rest, 1, slash - 1)
        more == IF slash = 0 THEN "" ELSE SubSeq(rest, slash, Len(rest))
        r == PointerIndex(seg)
        child == IF v.k = "object" THEN odFindField(v, seg)
                 ELSE IF r.err # "" THEN Failed(r.err)
                 ELSE odAt(v, r.idx)
    IN IF child.err # "" THEN child
       ELSE IF more = "" THEN child
       ELSE odAtPointer(child.val, more)

\* catch (simdjson::simdjson_error&) { return std::nullopt; }
CatchNull(r) == IF r.st = "error" THEN Absent ELSE r

RECURSIVE extractFromObjectOndemand(_, _, _)
RECURSIVE extractFromArrayOndemand(_, _, _)

extractFromObjectOndemand(pathIndex, obj, tokens_) ==
  IF pathIndex = Len(tokens_) THEN Present(to_json_string(obj))
  ELSE IF IsWildcard(tokens_[pathIndex + 1]) THEN Absent
  ELSE
    LET path == "/" \o tokens_[pathIndex + 1]
        rlt == odAtPointer(obj, path)
    IN IF rlt.err # "" THEN Absent
       ELSE IF rlt.val.k = "object"
            THEN CatchNull(extractFromObjectOndemand(pathIndex + 1, rlt.val,
                                                     tokens_))
       ELSE IF rlt.val.k = "array"
            THEN CatchNull(extractFromArrayOndemand(pathIndex + 1, rlt.val,
                                                    tokens_))
       ELSE Present(to_json_string(rlt.val))

extractFromArrayOndemand(pathIndex, arr, tokens_) ==
  IF pathIndex = Len(tokens_) THEN Present(to_json_string(arr))
  ELSE IF IsWildcard(tokens_[pathIndex + 1]) THEN
    LET end == OdCount(arr)
        \* One pass of the for loop with the iterator a at position i.
        RECURSIVE Loop(_, _)
        Loop(i, rlt) ==
          IF i > end THEN Present(rlt)
          ELSE
            LET a == OdElem(arr, i)
                sep == IF i # end THEN "," ELSE ""
                rlt_tmp ==
                  IF a.val.k = "object"
                  THEN extractFromObjectOndemand(pathIndex + 1, a.val, tokens_)
                  ELSE IF a.val.k = "array"
                  THEN extractFromArrayOndemand(pathIndex + 1, a.val, tokens_)
                  ELSE Present(to_json_string(a.val))
                added ==
                  IF rlt_tmp.st = "value" THEN rlt \o rlt_tmp.text \o sep
                  ELSE rlt
                closed == IF i = end THEN added \o "]" ELSE added
            IN IF a.err # "" THEN Thrown(a.err)
               ELSE IF rlt_tmp.st = "error" THEN rlt_tmp
               ELSE Loop(i + 1, closed)
    IN Loop(1, "[")
  ELSE
    LET path == "/" \o tokens_[pathIndex + 1]
        rlt == odAtPointer(arr, path)
    IN IF rlt.err # "" THEN Absent
       ELSE IF rlt.val.k = "object"
            THEN CatchNull(extractFromObjectOndemand(pathIndex + 1, rlt.val,
                                                     tokens_))
       ELSE IF rlt.val.k = "array"
            THEN CatchNull(extractFromArrayOndemand(pathIndex + 1, rlt.val,
                                                    tokens_))
       ELSE Present(to_json_string(rlt.val))

\* extractOndemand: structural extraction through the streaming backend.
extractOndemand(doc, tokens_) ==
  LET d == parseDocument(doc) IN
  IF d.err # "" THEN Absent
  ELSE IF d.val.k = "array" THEN extractFromArrayOndemand(0, d.val, tokens_)
  ELSE IF d.val.k = "object" THEN extractFromObjectOndemand(0, d.val, tokens_)
  ELSE Absent

simdJsonExtractString(doc, token) == extractOndemand(doc, token)

\* for (auto& token : tokens_) jsonpath = jsonpath + "/" + token;
RECURSIVE JsonPointer(_, _, _)
JsonPointer(tokens_, i, jsonpath) ==
  IF i > Len(tokens_) THEN jsonpath
  ELSE JsonPointer(tokens_, i + 1, jsonpath \o "/" \o tokens_[i])

\* isDocBasicType / isValueBasicType
isBasicType(v) == v.k \in {"number", "boolean", "null"}

\* ondemand get_string(): the unescaped content, STRING_ERROR on a bad escape.
get_string(v) == IF v.ok THEN [err |-> "", s |-> v.s]
                 ELSE [err |-> "STRING_ERROR", s |-> ""]

\* extractScalar without the final else: a container target is rendered
\* like a number.
extractScalarAnyTarget(doc, tokens_) ==
  LET d == parseDocument(doc)
      jsonpath == JsonPointer(tokens_, 1, "")
      rlt_value == IF IsContainer(d.val) THEN odAtPointer(d.val, jsonpath)
                   ELSE Failed("INVALID_JSON_POINTER")
      target == IF jsonpath = "" THEN d ELSE rlt_value
  IN IF d.err # "" THEN Absent
     ELSE IF target.err # "" THEN Absent
     ELSE IF target.val.k = "string"
          THEN IF get_string(target.val).err # "" THEN Absent
               ELSE Present(get_string(target.val).s)
     ELSE Present(to_json_string(target.val))

\* extractScalar: scalar extraction through the streaming backend.
extractScalar(doc, tokens_) ==
  LET d == parseDocument(doc)
      jsonpath == JsonPointer(tokens_, 1, "")
      \* document::at_pointer: the root itself is not a value to descend from
      \* unless it is a container.
      rlt_value == IF IsContainer(d.val) THEN odAtPointer(d.val, jsonpath)
                   ELSE Failed("INVALID_JSON_POINTER")
      target == IF jsonpath = "" THEN d ELSE rlt_value
  IN IF d.err # "" THEN Absent
     ELSE IF target.err # "" THEN Absent
     ELSE IF isBasicType(target.val) THEN Present(to_json_string(target.val))
     ELSE IF target.val.k = "string"
          THEN IF get_string(target.val).err # "" THEN Absent
               ELSE Present(get_string(target.val).s)
     ELSE Absent

simdJsonExtractScalar(doc, token) == extractScalar(doc, token)

(***************************************************************************)
(* Row functions.  A bool-returning call that returns false leaves the row *)
(* NULL; a void call always writes result.                                 *)
(***************************************************************************)
BoolValue(b) == Res("value", "", 0, b, "")
IntValue(n) == Res("value", "", n, FALSE, "")

\* A probe of json_array_contains: t is the C++ type of TInput.
Probe(t, v, s) == [t |-> t, v |-> v, s |-> s]

\* uint64_t(value) of an int64_t value.
ToUInt64(v) == v % (2 ^ IntBits)

\* One test of the loop body of json_array_contains on element v:
\* err is the code of the simdjson_error a getter throws.
ElementMatches(v, probe) ==
  CASE probe.t = "bool" ->
         IF v.k # "boolean" THEN [err |-> "", hit |-> FALSE]
         ELSE IF ~v.ok THEN [err |-> "INCORRECT_TYPE", hit |-> FALSE]
         ELSE [err |-> "", hit |-> v.v = probe.v]
    [] probe.t = "int64" ->
         IF v.k # "number" THEN [err |-> "", hit |-> FALSE]
         ELSE IF ~v.ok THEN [err |-> "NUMBER_ERROR", hit |-> FALSE]
         ELSE [err |-> "",
               hit |-> \/ (v.nt = "signed" /\ v.v = probe.v)
                       \/ (v.nt = "unsigned" /\ v.v = ToUInt64(probe.v))]
    [] probe.t = "double" ->
         IF v.k # "number" THEN [err |-> "", hit |-> FALSE]
         ELSE IF ~v.ok THEN [err |-> "NUMBER_ERROR", hit |-> FALSE]
         ELSE [err |-> "", hit |-> v.nt = "float" /\ v.v = probe.v]
    [] OTHER ->
         IF v.k # "string" THEN [err |-> "", hit |-> FALSE]
         ELSE IF get_string(v).err # ""
              THEN [err |-> get_string(v).err, hit |-> FALSE]
         ELSE [err |-> "", hit |-> get_string(v).s = probe.s]

\* for (auto&& v : jsonDoc) { ... result = true; break; ... }
RECURSIVE ContainsLoop(_, _, _)
ContainsLoop(arr, probe, i) ==
  IF i > OdCount(arr) THEN [err |-> "", hit |-> FALSE]
  ELSE IF OdElem(arr, i).err # ""
       THEN [err |-> OdElem(arr, i).err, hit |-> FALSE]
  ELSE LET m == ElementMatches(OdElem(arr, i).val, probe) IN
       IF m.err # "" \/ m.hit THEN m
       ELSE ContainsLoop(arr, probe, i + 1)

\* SIMDJsonArrayContainsFunction::call, bool-returning variant.
SIMDJsonArrayContainsFunction_call(doc, probe) ==
  LET d == parseDocument(doc)
      r == ContainsLoop(d.val, probe, 1)
  IN IF d.err # "" THEN Absent
     ELSE IF d.val.k # "array" THEN Absent
     ELSE IF r.err # "" THEN Absent
     ELSE BoolValue(r.hit)

\* SIMDJsonArrayContainsFunction::call, void variant.
SIMDJsonArrayContainsFunction_call2(doc, probe) ==
  LET d == parseDocument(doc)
      r == ContainsLoop(d.val, probe, 1)
  IN IF d.err # "" THEN BoolValue(FALSE)
     ELSE IF d.val.k # "array" THEN BoolValue(FALSE)
     ELSE IF r.err # ""
          THEN BoolValue(r.err \notin {"INCORRECT_TYPE", "NUMBER_ERROR"})
     ELSE BoolValue(r.hit)

\* SIMDJsonArrayLengthFunction::call (ParserContext variant): the loop
\* counts the positions visited and reads no element.
SIMDJsonArrayLengthFunction_call(doc) ==
  LET d == parseDocument(doc) IN
  IF d.err # "" THEN Absent
  ELSE IF d.val.k # "array" THEN Absent
  ELSE IntValue(OdCount(d.val))

\* SIMDJsonArrayLengthFunction::call (padded_string variant).
SIMDJsonArrayLengthFunction_call2(doc) ==
  LET d == parseDocument(doc) IN
  IF d.err # "" THEN Absent
  ELSE IF d.val.k # "array" THEN Absent
  ELSE IntValue(OdCount(d.val))

\* ondemand::document::count_fields: counts the fields, then reports the
\* error the iteration met.
count_fields(obj) ==
  IF obj.brk # 0 THEN [err |-> "TAPE_ERROR", n |-> 0]
  ELSE [err |-> "", n |-> Len(obj.items)]

\* The loop of SIMDJsonKeysFunction::call over the fields from count on.
RECURSIVE KeysLoop(_, _, _, _)
KeysLoop(obj, objCnt, count, rlt) ==
  IF count >= Len(obj.keys) THEN rlt
  ELSE KeysLoop(obj, objCnt, count + 1,
                rlt \o "\"" \o obj.keys[count + 1] \o "\""
                    \o (IF count + 1 # objCnt THEN "," ELSE ""))

\* SIMDJsonKeysFunction::call
SIMDJsonKeysFunction_call(doc) ==
  LET d == parseDocument(doc)
      objCnt == count_fields(d.val)
  IN IF d.err # "" THEN Absent
     ELSE IF d.val.k # "object" THEN Absent
     ELSE IF objCnt.err # "" THEN Thrown(objCnt.err)
     ELSE Present(KeysLoop(d.val, objCnt.n, 0, "[") \o "]")

\* SIMDIsJsonScalarFunction::call.  parseDocument is not inside a try block;
\* document::type() reads the first character of the text only.
SIMDIsJsonScalarFunction_call(doc) ==
  LET d == parseDocument(doc) IN
  IF d.err # "" THEN Thrown(d.err)
  ELSE BoolValue(d.val.k \in {"number", "string", "boolean", "null"})

\* document::at_pointer("") is document::get_value(): the root container,
\* and for a scalar root either the scalar or SCALAR_DOCUMENT_AS_VALUE,
\* depending on the simdjson release the build links.
document_get_value(root) ==
  IF IsContainer(root) THEN {Found(root)}
  ELSE {Found(root), Failed("SCALAR_DOCUMENT_AS_VALUE")}

\* The second try block of getJsonSize on the value rlt that at_pointer
\* gave.
SizeOf(rlt) ==
  IF rlt.err # "" THEN Absent
  ELSE IF rlt.val.k = "array" THEN IntValue(OdCount(rlt.val))
  ELSE IF rlt.val.k = "object"
       THEN IF count_fields(rlt.val).err # "" THEN Absent
            ELSE IntValue(count_fields(rlt.val).n)
  ELSE IntValue(0)

\* getJsonSize: the set of results the call can give (one, except for a
\* scalar root with the empty pointer).
getJsonSize(doc, tokens_) ==
  LET d == parseDocument(doc)
      jsonpath == JsonPointer(tokens_, 1, "")
  IN IF d.err # "" THEN {Absent}
     ELSE IF jsonpath = ""
          THEN {SizeOf(rlt) : rlt \in document_get_value(d.val)}
     ELSE IF IsContainer(d.val) THEN {SizeOf(odAtPointer(d.val, jsonpath))}
     ELSE {Absent}

simdJsonSize(doc, token) == getJsonSize(doc, token)

\* VELOX_USER_FAIL: a VeloxUserError leaves the function.
UserFail(what) == Thrown(what)

\* What a reader of a StringView whose buffer was destroyed can see.
Freed == "<freed>"

\* SIMDJsonParseFunction::call: parseElement is not inside a try block, and
\* result.setNoCopy points at the local std::string rlt, destroyed when call
\* returns.  The set of results the call can give.
SIMDJsonParseFunction_call(doc) ==
  LET d == parseElement(doc) IN
  IF d.err # "" THEN {Thrown(d.err)}
  ELSE {Present(to_string(d.val)), Present(Freed)}

\* SIMDJsonParseFunction::call (second variant): dom parse inside try, the
\* catch raises the user error.  rlt_tmp is a string_view of the temporary
\* std::string that to_string returns, destroyed at the end of that
\* statement; the text copied from it afterwards is the rendering or what
\* the released buffer holds.  The set of results the call can give.
SIMDJsonParseFunction_call2(doc) ==
  LET d == parseElement(doc) IN
  IF d.err # "" THEN {UserFail("Cannot convert to JSON")}
  ELSE {Present(to_string(d.val)), Present(Freed)}

(***************************************************************************)
(* Path tokenizer.  tokenize drives the function-local static              *)
(* JsonPathTokenizer kTokenizer: reset, then getNext while hasNext.  The   *)
(* tokenizer state is the path text and the position of the next           *)
(* character (1-based).                                                    *)
(***************************************************************************)
Tokenizer(input, index) == [input |-> input, index |-> index]

CharAt(str, i) == IF i >= 1 /\ i <= Len(str) THEN SubSeq(str, i, i) ELSE ""

\* First position from i on holding "." or "[", Len(str) + 1 when none.
RECURSIVE SegmentEnd(_, _)
SegmentEnd(str, i) ==
  IF i > Len(str) THEN i
  ELSE IF CharAt(str, i) \in {".", "["} THEN i
  ELSE SegmentEnd(str, i + 1)

\* First position from i on holding "]", 0 when none.
RECURSIVE FindClose(_, _)
FindClose(str, i) ==
  IF i > Len(str) THEN 0
  ELSE IF CharAt(str, i) = "]" THEN i
  ELSE FindClose(str, i + 1)

\* A name holds no bracket, no root marker and no blank.
RECURSIVE IsName(_, _)
IsName(str, i) ==
  IF i > Len(str) THEN Len(str) > 0
  ELSE /\ CharAt(str, i) \notin {"]", "$", " "}
       /\ IsName(str, i + 1)

\* JsonPathTokenizer::reset: keeps the path and skips the root marker.
reset(path) ==
  Tokenizer(path, IF CharAt(path, 1) = "$" THEN 2 ELSE 1)

\* JsonPathTokenizer::hasNext.
hasNext(t) == t.index <= Len(t.input)

\* JsonPathTokenizer::getNext: the next token and the tokenizer after it, or
\* no token (ok = FALSE) on an empty segment, an unbalanced bracket or an
\* illegal character.
getNext(t) ==
  LET c == CharAt(t.input, t.index)
      NoToken == [ok |-> FALSE, tok |-> "", t |-> t]
  IN
  IF c = "." \/ (t.index = 1 /\ c \notin {".", "[", "]", "$", " "})
  THEN LET from == IF c = "." THEN t.index + 1 ELSE t.index
           to == SegmentEnd(t.input, from)
           name == SubSeq(t.input, from, to - 1)
       IN IF IsName(name, 1)
          THEN [ok |-> TRUE, tok |-> name, t |-> Tokenizer(t.input, to)]
          ELSE NoToken
  ELSE IF c = "["
  THEN LET close == FindClose(t.input, t.index + 1)
           inner == SubSeq(t.input, t.index + 1, close - 1)
       IN IF close = 0 THEN NoToken
          ELSE IF inner = "*" \/ (inner # "" /\ ReadIndex(inner, 1, 0).err = "")
          THEN [ok |-> TRUE, tok |-> inner,
                t |-> Tokenizer(t.input, close + 1)]
          ELSE NoToken
  ELSE NoToken

RECURSIVE TokenizeLoop(_, _)

\* TokenizeLoop without token.clear(): a failure leaves the tokens pushed.
TokenizeLoopNoClear(t, token) ==
  IF ~hasNext(t) THEN [ok |-> TRUE, token |-> token]
  ELSE LET curr == getNext(t) IN
       IF curr.ok THEN TokenizeLoop(curr.t, Append(token, curr.tok))
       ELSE [ok |-> FALSE, token |-> token]

\* The while loop of tokenize on tokenizer t with the tokens pushed so far.
TokenizeLoop(t, token) ==
  IF ~hasNext(t) THEN [ok |-> TRUE, token |-> token]
  ELSE LET curr == getNext(t) IN
       IF curr.ok THEN TokenizeLoop(curr.t, Append(token, curr.tok))
       ELSE [ok |-> FALSE, token |-> <<>>]

\* tokenize, run without interruption.
tokenize(path) ==
  IF path = "" THEN [ok |-> FALSE, token |-> <<>>]
  ELSE TokenizeLoop(reset(path), <<>>)

(***************************************************************************)
(* Token cache tokens_ of SIMDJsonExtractFunction,                         *)
(* SIMDJsonExtractScalarFunction and SIMDJsonSizeFunction: a map from path *)
(* text to token sequence.                                                 *)
(***************************************************************************)
\* kMaxCacheNum is 32 in the source; the model scales the capacity down.
kMaxCacheNum == 3

EmptyCache == [k \in {} |-> <<>>]

\* No key: nothing was erased.  No path text tokenizes from it.
NoKey == "<none>"

\* EvictIfFull without the erase.
EvictNever(c) == {[cache |-> c, victim |-> NoKey]}

\* tokens_.erase(tokens_.begin()) when tokens_.size() == kMaxCacheNum: the
\* caches that can result, begin() being any entry of the unordered_map.
EvictIfFull(c) ==
  IF Cardinality(DOMAIN c) = kMaxCacheNum
  THEN {[cache |-> [k \in DOMAIN c \ {victim} |-> c[k]], victim |-> victim] :
          victim \in DOMAIN c}
  ELSE {[cache |-> c, victim |-> NoKey]}

\* Store that inserts nothing.
StoreNothing(c, p, token) == c

\* Store that keeps the token vector as it was before tokenize filled it.
StoreEmpty(c, p, token) ==
  [k \in DOMAIN c \cup {p} |-> IF k = p THEN <<>> ELSE c[k]]

\* Store that writes the tokens to every entry.
StoreAll(c, p, token) == [k \in DOMAIN c \cup {p} |-> token]

\* tokens_[jsonPath] = token
Store(c, p, token) ==
  [k \in DOMAIN c \cup {p} |-> IF k = p THEN token ELSE c[k]]

\* An outcome of resolving a path: ok = FALSE is the VELOX_USER_FAIL.
Resolved(ok, hit, token, c, victim) ==
  [ok |-> ok, hit |-> hit, token |-> token, cache |-> c, victim |-> victim]

\* initialize that evicts and stores before it looks at what tokenize
\* returned.
initializeStoreFirst(c, p) ==
  LET t == tokenize(p) IN
  {Resolved(t.ok, FALSE, t.token, Store(e.cache, p, t.token), e.victim) :
     e \in EvictIfFull(c)}

\* initialize: tokenize, fail on an invalid path, else evict and store.
\* The set of outcomes.
initialize(c, p) ==
  LET t == tokenize(p) IN
  IF ~t.ok THEN {Resolved(FALSE, FALSE, <<>>, c, NoKey)}
  ELSE {Resolved(TRUE, FALSE, t.token, Store(e.cache, p, t.token), e.victim) :
          e \in EvictIfFull(c)}

\* ResolveTokens that runs the miss branch on a hit too.
ResolveAlwaysStore(c, p) ==
  {Resolved(o.ok, p \in DOMAIN c, o.token, o.cache, o.victim) :
     o \in initialize(c, p)}

\* The first half of call: the tokens of the path, from the cache or from
\* tokenize, and the cache afterwards.  The miss branch is the code of
\* initialize.
ResolveTokens(c, p) ==
  IF p \in DOMAIN c
  THEN {Resolved(TRUE, TRUE, c[p], c, NoKey)}
  ELSE initialize(c, p)

\* The second half of call for function f: the results it can give.
\* SIMDJsonSizeFunction::call parses the document itself before simdJsonSize.
Evaluate(f, doc, token) ==
  CASE f = "json_extract" -> {simdJsonExtractObject(doc, token)}
    [] f = "json_extract_scalar" -> {simdJsonExtractScalar(doc, token)}
    [] f = "json_size" ->
         IF parseDocument(doc).err # "" THEN {Absent}
         ELSE simdJsonSize(doc, token)

InvalidPath == UserFail("Invalid JSON path")

\* One tokenization in progress on a thread, and the number of
\* tokenizations the thread has begun.
ThreadState(at, p, token, ok, calls) ==
  [pc |-> at, path |-> p, token |-> token, ok |-> ok, calls |-> calls]
IdleThread == ThreadState("idle", "", <<>>, FALSE, 0)
Threads == {1, 2}

(***************************************************************************)
(* Inputs of a row.                                                        *)
(***************************************************************************)
SeqsUpTo(S, n) == UNION {[1..m -> S] : m \in 0..n}

\* A JSON text: its syntax tree, and whether stage 1 of the parsers rejects
\* it (an unclosed string, invalid UTF-8, an empty text).
Doc(root, stage1) == [root |-> root, stage1 |-> stage1]

\* Every way of leaving out one separator of container c.
Breaks(c) == {Broken(c, j) : j \in 2..Len(c.items)}

Scalars == {JInt(1), JStr("x")}
Nested ==
  {JArr(<<>>), JArr(<<JInt(1)>>), JObj(<<"a">>, <<JInt(1)>>),
   JObj(<<"b">>, <<JStr("x")>>), JObj(<<"a">>, <<JArr(<<JFlt(2, "2.00")>>)>>),
   JObj(<<"*">>, <<JInt(1)>>)}
Inner == Scalars \cup Nested

Keys == {"a", "b"}
KeySeqs ==
  {ks \in SeqsUpTo(Keys, MaxLen) :
     \A i, j \in 1..Len(ks) : i # j => ks[i] # ks[j]}

Arrays == {JArr(s) : s \in SeqsUpTo(Inner, MaxLen)}
Objects ==
  UNION {{JObj(ks, s) : s \in [1..Len(ks) -> Inner]} : ks \in KeySeqs}

\* Texts that stage 1 accepts and a full parse rejects: an atom that is no
\* JSON value, at the root and inside containers, and containers with a
\* separator left out.
BadAtom == JBad("boolean", "tru")
BadAtoms ==
  {BadAtom, JArr(<<BadAtom>>), JArr(<<JInt(1), BadAtom>>),
   JArr(<<JObj(<<"a">>, <<BadAtom>>)>>), JObj(<<"b">>, <<BadAtom>>),
   JObj(<<"a">>, <<JArr(<<BadAtom>>)>>)}
Breakable ==
  {JArr(<<JInt(1), JInt(1)>>), JArr(<<JObj(<<"a">>, <<JInt(1)>>), JInt(1)>>),
   JArr(<<JInt(1), JStr("x"), JInt(1)>>),
   JObj(<<"a", "b">>, <<JInt(1), JInt(2)>>),
   JObj(<<"b", "a">>, <<JArr(<<JInt(1)>>), JStr("x")>>)}
MalformedRoots == BadAtoms \cup UNION {Breaks(c) : c \in Breakable}

Roots == Scalars \cup Arrays \cup Objects \cup MalformedRoots

Stage1Docs ==
  {Doc(r, TRUE) : r \in {JStr("x"), JArr(<<JStr("x")>>),
                         JObj(<<"a">>, <<JStr("x")>>)}}
ExtractDocs == {Doc(r, FALSE) : r \in Roots} \cup Stage1Docs

TokenAlphabet == {"a", "b", "0", "*"}
TokenSeqs == SeqsUpTo(TokenAlphabet, MaxTokens)

\* Elements and probes of json_array_contains.
Elements ==
  {JInt(1), JInt(0 - 1), JInt(UInt64Max), JFlt(1, "1.0"), JStr("1"),
   JBool(TRUE), JNull, JBad("boolean", "tru"), JBad("string", "\"\\q\"")}
FlatArrays == {JArr(s) : s \in SeqsUpTo(Elements, MaxLen)}
ContainsDocs ==
  {Doc(r, FALSE) :
     r \in FlatArrays \cup UNION {Breaks(c) : c \in FlatArrays}
             \cup {JInt(1), JObj(<<"a">>, <<JInt(1)>>)}}
    \cup Stage1Docs
Probes ==
  {Probe("bool", 1, ""), Probe("bool", 0, ""), Probe("int64", 1, ""),
   Probe("int64", 0 - 1, ""), Probe("double", 1, ""),
   Probe("varchar", 0, "1")}

\* Documents of is_json_scalar and json_parse, and the paths of json_size.
ScalarDocs ==
  ExtractDocs \cup ContainsDocs \cup {Doc(JBool(TRUE), FALSE), Doc(JNull, FALSE)}
ParseDocs == ScalarDocs \cup {Doc(JBig, FALSE), Doc(JArr(<<JBig>>), FALSE)}
SizeTokenSeqs == {t \in TokenSeqs : Len(t) < MaxTokens}

\* Documents and tokens of the pointer lookups of extractScalar and
\* getJsonSize: a field name and a token may hold the "/" of the pointer
\* syntax (path $["a/b"]).
PointerRoots ==
  {JObj(<<"a/b">>, <<JInt(1)>>),
   JObj(<<"a">>, <<JObj(<<"b">>, <<JStr("x")>>)>>),
   JObj(<<"a">>, <<JArr(<<JInt(1), JArr(<<>>)>>)>>),
   JObj(<<"a", "a/b">>, <<JObj(<<"b">>, <<JArr(<<JInt(1)>>)>>), JBool(TRUE)>>),
   JArr(<<JObj(<<"b">>, <<JNull>>), JInt(1)>>)}
PointerDocs == {Doc(r, FALSE) : r \in PointerRoots}
PointerTokenSeqs == SeqsUpTo({"a", "b", "0", "1", "a/b"}, 2)

NoProbe == Probe("none", 0, "")
NoDoc == Doc(JNull, FALSE)

(***************************************************************************)
(* The row loop: the engine calls one function on one row, reads the       *)
(* result, and goes on to the next row.                                    *)
(***************************************************************************)
\* No instance has run and no thread has started.
InitCacheVars ==
  /\ tokensCache = EmptyCache
  /\ pc = "new"
  /\ op = "none"
  /\ jsonPath = ""
  /\ evicted = NoKey
  /\ rows = 0
  /\ afterFailure = FALSE

InitThreadVars ==
  /\ kTokenizer = Tokenizer("", 1)
  /\ thread = [i \in Threads |-> IdleThread]

\* Jobs of the pool (scaled down).
MaxJobs == 2
\* Calls made on the decoder.
MaxVisits == 3

\* The decoder: the statement it stands at, the job_id it holds in its
\* local variable (0: none), and the number of calls begun.
Decoder(at, job_id, calls) == [pc |-> at, job_id |-> job_id, calls |-> calls]

\* Every job is in the pool, the decoder is between calls, processRun has
\* not run.
InitQplVars ==
  /\ qpl_job_pool = [j \in 1..MaxJobs |-> "free"]
  /\ decoder = Decoder("idle", 0, 0)
  /\ handed = "none"

Init ==
  /\ fn = "idle"
  /\ json = NoDoc
  /\ tokens = <<>>
  /\ value = NoProbe
  /\ result = NoResult
  /\ InitCacheVars
  /\ InitThreadVars
  /\ InitQplVars

Row(f, doc, t, probe, r) ==
  /\ fn' = f
  /\ json' = doc
  /\ tokens' = t
  /\ value' = probe
  /\ result' = r
  /\ UNCHANGED <<cacheVars, threadVars, qplVars>>

ExtractObject ==
  /\ fn = "idle"
  /\ \E doc \in ExtractDocs, t \in TokenSeqs :
       Row("simdJsonExtractObject", doc, t, NoProbe,
           simdJsonExtractObject(doc, t))

ExtractString ==
  /\ fn = "idle"
  /\ \E doc \in ExtractDocs, t \in TokenSeqs :
       Row("simdJsonExtractString", doc, t, NoProbe,
           simdJsonExtractString(doc, t))

ExtractScalar ==
  /\ fn = "idle"
  /\ \E doc \in ExtractDocs, t \in TokenSeqs :
       Row("simdJsonExtractScalar", doc, t, NoProbe,
           simdJsonExtractScalar(doc, t))

ArrayContains ==
  /\ fn = "idle"
  /\ \E doc \in ContainsDocs, probe \in Probes :
       Row("json_array_contains", doc, <<>>, probe,
           SIMDJsonArrayContainsFunction_call(doc, probe))

ArrayContains2 ==
  /\ fn = "idle"
  /\ \E doc \in ContainsDocs, probe \in Probes :
       Row("json_array_contains2", doc, <<>>, probe,
           SIMDJsonArrayContainsFunction_call2(doc, probe))

ArrayLength ==
  /\ fn = "idle"
  /\ \E doc \in ContainsDocs \cup ExtractDocs :
       Row("json_array_length", doc, <<>>, NoProbe,
           SIMDJsonArrayLengthFunction_call(doc))

ArrayLength2 ==
  /\ fn = "idle"
  /\ \E doc \in ContainsDocs \cup ExtractDocs :
       Row("json_array_length2", doc, <<>>, NoProbe,
           SIMDJsonArrayLengthFunction_call2(doc))

JsonKeys ==
  /\ fn = "idle"
  /\ \E doc \in ExtractDocs :
       Row("json_keys", doc, <<>>, NoProbe, SIMDJsonKeysFunction_call(doc))

IsJsonScalar ==
  /\ fn = "idle"
  /\ \E doc \in ScalarDocs :
       Row("is_json_scalar", doc, <<>>, NoProbe,
           SIMDIsJsonScalarFunction_call(doc))

JsonSize ==
  /\ fn = "idle"
  /\ \E doc \in ExtractDocs, t \in SizeTokenSeqs :
       \E r \in simdJsonSize(doc, t) : Row("json_size", doc, t, NoProbe, r)

JsonParse ==
  /\ fn = "idle"
  /\ \E doc \in ParseDocs :
       \E r \in SIMDJsonParseFunction_call(doc) :
         Row("json_parse", doc, <<>>, NoProbe, r)

JsonParse2 ==
  /\ fn = "idle"
  /\ \E doc \in ParseDocs :
       \E r \in SIMDJsonParseFunction_call2(doc) :
         Row("json_parse2", doc, <<>>, NoProbe, r)

\* extractScalar and getJsonSize on the documents and tokens of the pointer
\* lookup.
PointerScalar ==
  /\ fn = "idle"
  /\ \E doc \in PointerDocs, t \in PointerTokenSeqs :
       Row("extractScalar", doc, t, NoProbe, extractScalar(doc, t))

PointerSize ==
  /\ fn = "idle"
  /\ \E doc \in PointerDocs, t \in PointerTokenSeqs :
       \E r \in getJsonSize(doc, t) : Row("getJsonSize", doc, t, NoProbe, r)

\* Path texts given to tokenize: some that tokenize, the empty path, and
\* some that fail at the first or at a later token.
TokenizePaths ==
  {"$", "$.a", "a", "$.a.b", "$[0]", "$[*].a", "a[*]", "$.a[0]", "[*].a",
   "$.*", "a.b.a", "$[0][1]"}
    \cup {"", "$.a[", "$..a", "$a", "$.a]", "$.a.b[", "$[0].a[*", "$.a b",
          "$[a]", "$[]"}

\* tokenize(path, token) with a fresh token vector, as initialize and call
\* run it: result.flag is the bool returned, tokens the vector afterwards.
Tokenize ==
  /\ fn = "idle"
  /\ \E p \in TokenizePaths :
       /\ jsonPath' = p
       /\ tokens' = tokenize(p).token
       /\ result' = BoolValue(tokenize(p).ok)
  /\ fn' = "tokenize"
  /\ json' = NoDoc
  /\ value' = NoProbe
  /\ UNCHANGED <<tokensCache, pc, op, evicted, rows, afterFailure, threadVars, qplVars>>

NextRow ==
  /\ fn # "idle"
  /\ fn' = "idle"
  /\ json' = NoDoc
  /\ tokens' = <<>>
  /\ value' = NoProbe
  /\ result' = NoResult
  /\ jsonPath' = ""
  /\ UNCHANGED <<tokensCache, pc, op, evicted, rows, afterFailure, threadVars, qplVars>>

Next ==
  \/ ExtractObject
  \/ ExtractString
  \/ ExtractScalar
  \/ ArrayContains
  \/ ArrayContains2
  \/ ArrayLength
  \/ ArrayLength2
  \/ JsonKeys
  \/ IsJsonScalar
  \/ JsonSize
  \/ JsonParse
  \/ JsonParse2
  \/ PointerScalar
  \/ PointerSize
  \/ Tokenize
  \/ NextRow

Spec == Init /\ [][Next]_vars

\* Structural extraction alone: the rows of the two backends.
NextExtract ==
  \/ ExtractObject
  \/ ExtractString
  \/ NextRow

SpecExtract == Init /\ [][NextExtract]_vars

(***************************************************************************)
(* One function instance and its batch: initialize with the literal path,  *)
(* then call row after row.                                                *)
(***************************************************************************)
\* Rows of a batch.
MaxRows == 4

CachedFns == {"json_extract", "json_extract_scalar", "json_size"}
VectorFns == {"json_parse"}

\* Path texts: six that tokenize, two that do not (empty, unbalanced).
ValidPaths == {"$", "$.a", "a", "$.a.b", "$[0]", "$[*].a"}
InvalidPaths == {"", "$.a["}
PathTexts == ValidPaths \cup InvalidPaths

BatchDocs ==
  {Doc(JObj(<<"a">>, <<JObj(<<"b">>, <<JInt(1)>>)>>), FALSE),
   Doc(JArr(<<JObj(<<"a">>, <<JStr("x")>>), JInt(1)>>), FALSE),
   Doc(Broken(JArr(<<JInt(1), JInt(1)>>), 2), FALSE),
   Doc(JStr("x"), TRUE)}

\* JsonParseFunction::apply on one row of a flat vector: parseJson only
\* validates, the result vector shares the input strings, and
\* applyToSelectedNoThrow keeps the exception of a row with that row.
JsonParseFunction_apply(doc) ==
  IF doc.stage1 \/ ~WellFormed(doc.root) THEN Thrown("parseJson")
  ELSE Present(to_json_string(doc.root))

\* Where the batch stands after an operation: an error raised by initialize
\* ends the evaluation of the expression before any row; an error raised
\* for a row is kept with that row and the next row follows.
AfterOperation(operation, ok) ==
  IF operation = "initialize" /\ ~ok THEN "failed" ELSE "ready"

\* The previous operation was a row that gave NULL or an error.
RowFailed == op \in {"hit", "miss", "apply"} /\ result.st \in {"null", "error"}

InitCache ==
  /\ fn \in CachedFns \cup VectorFns
  /\ json = NoDoc
  /\ tokens = <<>>
  /\ value = NoProbe
  /\ result = NoResult
  /\ InitCacheVars
  /\ InitThreadVars
  /\ InitQplVars

\* initialize(config, json, jsonPath) of the instance.
Initialize ==
  /\ fn \in CachedFns
  /\ pc \in {"new", "ready"}
  /\ rows = 0
  /\ \E p \in PathTexts : \E o \in initialize(tokensCache, p) :
       /\ jsonPath' = p
       /\ tokensCache' = o.cache
       /\ evicted' = o.victim
       /\ tokens' = o.token
       /\ result' = IF o.ok THEN NoResult ELSE InvalidPath
       /\ pc' = AfterOperation("initialize", o.ok)
  /\ op' = "initialize"
  /\ json' = NoDoc
  /\ UNCHANGED <<fn, value, rows, afterFailure, threadVars, qplVars>>

\* call(result, json, jsonPath) of the instance on the next row.
CallRow ==
  /\ fn \in CachedFns
  /\ pc \in {"new", "ready"}
  /\ rows < MaxRows
  /\ \E doc \in BatchDocs, p \in PathTexts :
       \E o \in ResolveTokens(tokensCache, p) :
         \E r \in (IF o.ok THEN Evaluate(fn, doc, o.token)
                   ELSE {InvalidPath}) :
           /\ json' = doc
           /\ jsonPath' = p
           /\ tokensCache' = o.cache
           /\ evicted' = o.victim
           /\ tokens' = o.token
           /\ result' = r
           /\ op' = IF o.hit THEN "hit" ELSE "miss"
           /\ pc' = AfterOperation("call", o.ok)
  /\ rows' = rows + 1
  /\ afterFailure' = (afterFailure \/ RowFailed)
  /\ UNCHANGED <<fn, value, threadVars, qplVars>>

\* JsonParseFunction::apply reaching the next row of the batch.
ApplyRow ==
  /\ fn \in VectorFns
  /\ pc \in {"new", "ready"}
  /\ rows < MaxRows
  /\ \E doc \in BatchDocs \cup {Doc(JInt(1), FALSE), Doc(JArr(<<>>), FALSE)} :
       /\ json' = doc
       /\ result' = JsonParseFunction_apply(doc)
  /\ op' = "apply"
  /\ pc' = AfterOperation("apply", TRUE)
  /\ rows' = rows + 1
  /\ afterFailure' = (afterFailure \/ RowFailed)
  /\ UNCHANGED <<fn, tokens, value, tokensCache, jsonPath, evicted,
                 threadVars, qplVars>>

NextCache ==
  \/ Initialize
  \/ CallRow
  \/ ApplyRow

SpecCache == InitCache /\ [][NextCache]_vars

(***************************************************************************)
(* Two function instances on two threads, each inside tokenize (from its   *)
(* initialize or its call).  kTokenizer is a function-local static: there  *)
(* is one for the whole process, and tokenize takes no lock.               *)
(***************************************************************************)
\* Tokenizations of one thread.
MaxCalls == 2

ThreadPaths == {"$.a.b", "$[0]", "a", "$.a["}

\* if (path.empty()) return false; if (!kTokenizer.reset(path)) return false;
TokenizeBegin(i) ==
  /\ thread[i].pc = "idle"
  /\ thread[i].calls < MaxCalls
  /\ \E p \in ThreadPaths \cup {""} :
       IF p = ""
       THEN /\ thread' = [thread EXCEPT ![i] =
                            ThreadState("done", p, <<>>, FALSE,
                                        thread[i].calls + 1)]
            /\ UNCHANGED kTokenizer
       ELSE /\ kTokenizer' = reset(p)
            /\ thread' = [thread EXCEPT ![i] =
                            ThreadState("loop", p, <<>>, FALSE,
                                        thread[i].calls + 1)]
  /\ UNCHANGED <<rowVars, cacheVars, qplVars>>

\* One pass of while (kTokenizer.hasNext()) { ... getNext() ... }.
TokenizeStep(i) ==
  /\ thread[i].pc = "loop"
  /\ IF ~hasNext(kTokenizer)
     THEN /\ thread' = [thread EXCEPT ![i].pc = "done", ![i].ok = TRUE]
          /\ UNCHANGED kTokenizer
     ELSE LET curr == getNext(kTokenizer) IN
          IF curr.ok
          THEN /\ thread' = [thread EXCEPT
                               ![i].token = Append(thread[i].token, curr.tok)]
               /\ kTokenizer' = curr.t
          ELSE /\ thread' = [thread EXCEPT ![i].pc = "done",
                                           ![i].token = <<>>,
                                           ![i].ok = FALSE]
               /\ kTokenizer' = curr.t
  /\ UNCHANGED <<rowVars, cacheVars, qplVars>>

\* The instance goes on to its next path.
TokenizeReturn(i) ==
  /\ thread[i].pc = "done"
  /\ thread' = [thread EXCEPT ![i] =
                    ThreadState("idle", "", <<>>, FALSE, thread[i].calls)]
  /\ UNCHANGED <<kTokenizer, rowVars, cacheVars, qplVars>>

NextThreads ==
  \E i \in Threads :
    \/ TokenizeBegin(i)
    \/ TokenizeStep(i)
    \/ TokenizeReturn(i)

SpecThreads == Init /\ [][NextThreads]_vars

(***************************************************************************)
(* DeflateRleBpDecoder: the three visitor entry points and the QPL jobs    *)
(* they take from the job pool.  A call is a sequence of steps, so that    *)
(* the hardware can finish a job between any two of them.                  *)
(***************************************************************************)

\* useQplPath<hasNulls>: the QPL path is taken unless the page has nulls.
useQplPath(hasNulls) == ~hasNulls

\* QplJobHWPool::AcquireJob: an unused job of the pool and its id, or no job
\* (id 0, the null pointer) when every job is in use.
AcquireJob(pool) ==
  LET unused == {j \in DOMAIN pool : pool[j] = "free"} IN
  IF unused = {} THEN {[job_id |-> 0, pool |-> pool]}
  ELSE {[job_id |-> j, pool |-> [pool EXCEPT ![j] = "acquired"]] : j \in unused}

\* qpl_fini_job and QplJobHWPool::ReleaseJob: the job goes back to the pool.
ReleaseJob(pool, job_id) == [pool EXCEPT ![job_id] = "free"]

\* The call enters scan when the QPL path is taken: the job is acquired
\* and, unchecked, written to; a null job ends the process.  Without the
\* QPL path the call prints "not support yet!" and returns.
Enter(scan) ==
  /\ decoder.calls < MaxVisits
  /\ \E hasNulls \in BOOLEAN :
       IF useQplPath(hasNulls)
         THEN \E a \in AcquireJob(qpl_job_pool) :
                /\ qpl_job_pool' = a.pool
                /\ decoder' =
                     Decoder(IF a.job_id = 0 THEN "fault" ELSE scan, a.job_id,
                             decoder.calls + 1)
         ELSE /\ decoder' = Decoder("idle", 0, decoder.calls + 1)
              /\ UNCHANGED qpl_job_pool
  /\ UNCHANGED <<handed, rowVars, cacheVars, threadVars>>

readWithVisitor ==
  /\ decoder.pc = "idle"
  /\ Enter("bulkScan_submit")

decodeWithVisitor ==
  /\ decoder.pc = "idle"
  /\ Enter("rleDecode_submit")

\* filterWithVisitor acquires no job: filterScan goes straight to
\* processRun on the visitor's values.
filterWithVisitor ==
  /\ decoder.pc = "idle"
  /\ decoder.calls < MaxVisits
  /\ \E hasNulls \in BOOLEAN :
       decoder' =
         Decoder(IF useQplPath(hasNulls) THEN "filterScan_processRun" ELSE "idle",
                 0, decoder.calls + 1)
  /\ UNCHANGED <<qpl_job_pool, handed, rowVars, cacheVars, threadVars>>

\* qpl_submit_job followed by VELOX_DCHECK(status == QPL_STS_OK): an accepted
\* job is being processed; a rejected job stays as acquired, and the check
\* throws in a debug build and is compiled out in a release build.
qpl_submit_job(next, job_id) ==
  \E status \in {"QPL_STS_OK", "rejected"}, debug \in BOOLEAN :
    /\ qpl_job_pool' =
         IF status = "QPL_STS_OK"
           THEN [qpl_job_pool EXCEPT ![job_id] = "processing"]
           ELSE qpl_job_pool
    /\ decoder' =
         IF status # "QPL_STS_OK" /\ debug
           THEN Decoder("thrown", job_id, decoder.calls)
           ELSE next

\* bulkScan submits the job and goes on to wait for it.
bulkScanSubmit ==
  /\ decoder.pc = "bulkScan_submit"
  /\ qpl_submit_job(Decoder("bulkScan_wait", decoder.job_id, decoder.calls),
                    decoder.job_id)
  /\ UNCHANGED <<handed, rowVars, cacheVars, threadVars>>

\* rleDecode submits the job and returns its id: the job is neither waited
\* for nor given back.
rleDecodeSubmit ==
  /\ decoder.pc = "rleDecode_submit"
  /\ qpl_submit_job(Decoder("idle", decoder.job_id, decoder.calls),
                    decoder.job_id)
  /\ UNCHANGED <<handed, rowVars, cacheVars, threadVars>>

\* The accelerator finishes a job it is processing.
JobDone ==
  /\ \E j \in DOMAIN qpl_job_pool :
       /\ qpl_job_pool[j] = "processing"
       /\ qpl_job_pool' = [qpl_job_pool EXCEPT ![j] = "done"]
  /\ UNCHANGED <<decoder, handed, rowVars, cacheVars, threadVars>>

\* bulkScan leaves its loop once qpl_check_job no longer answers
\* QPL_STS_BEING_PROCESSED, finishes the job and releases it.
bulkScanRelease ==
  /\ decoder.pc = "bulkScan_wait"
  /\ qpl_job_pool[decoder.job_id] # "processing"
  /\ qpl_job_pool' = ReleaseJob(qpl_job_pool, decoder.job_id)
  /\ decoder' = Decoder("bulkScan_processRun", decoder.job_id, decoder.calls)
  /\ UNCHANGED <<handed, rowVars, cacheVars, threadVars>>

\* visitor.processRun on the values buffer, and the return to the caller.
\* handed records whether a job writing that buffer was still being
\* processed.
processRun ==
  /\ handed' =
       IF \E j \in DOMAIN qpl_job_pool : qpl_job_pool[j] = "processing"
         THEN "busy" ELSE "ready"
  /\ decoder' = Decoder("idle", decoder.job_id, decoder.calls)
  /\ UNCHANGED <<qpl_job_pool, rowVars, cacheVars, threadVars>>

bulkScanProcessRun ==
  /\ decoder.pc = "bulkScan_processRun"
  /\ processRun

filterScan ==
  /\ decoder.pc = "filterScan_processRun"
  /\ processRun

NextQpl ==
  \/ readWithVisitor
  \/ decodeWithVisitor
  \/ filterWithVisitor
  \/ bulkScanSubmit
  \/ rleDecodeSubmit
  \/ JobDone
  \/ bulkScanRelease
  \/ bulkScanProcessRun
  \/ filterScan

SpecQpl == Init /\ [][NextQpl]_vars

(***************************************************************************)
(* Vocabulary of the claims.                                               *)
(***************************************************************************)
Malformed(doc) == doc.stage1 \/ ~WellFormed(doc.root)

Structural == {"simdJsonExtractObject", "simdJsonExtractString"}

\* The values of a document: the root and everything below it.
RECURSIVE SubValues(_)
SubValues(v) ==
  {v} \cup UNION {SubValues(v.items[i]) : i \in 1..Len(v.items)}

\* The structural navigation of value v from token pathIndex on, in the
\* backend function f names.
Navigate(f, pathIndex, v, tokens_) ==
  IF f = "simdJsonExtractObject"
  THEN IF v.k = "object" THEN extractFromObject(pathIndex, v, tokens_)
       ELSE IF v.k = "array" THEN extractFromArray(pathIndex, v, tokens_)
       ELSE Present(to_string(v))
  ELSE IF v.k = "object" THEN extractFromObjectOndemand(pathIndex, v, tokens_)
       ELSE IF v.k = "array"
       THEN extractFromArrayOndemand(pathIndex, v, tokens_)
       ELSE Present(to_json_string(v))

\* The texts in texts_ joined by single "," separators.
RECURSIVE JoinComma(_)
JoinComma(texts_) ==
  IF texts_ = <<>> THEN ""
  ELSE IF Len(texts_) = 1 THEN texts_[1]
  ELSE texts_[1] \o "," \o JoinComma(Tail(texts_))

\* The present results of the elements of arr for the tokens after
\* pathIndex, in element order.
RECURSIVE KeptResults(_, _, _, _, _)
KeptResults(f, pathIndex, arr, tokens_, i) ==
  IF i > Len(arr.items) THEN <<>>
  ELSE LET r == Navigate(f, pathIndex + 1, arr.items[i], tokens_) IN
       (IF r.st = "value" THEN <<r.text>> ELSE <<>>)
         \o KeptResults(f, pathIndex, arr, tokens_, i + 1)

WildcardAtRoot ==
  /\ fn \in Structural
  /\ ~Malformed(json)
  /\ json.root.k = "array"
  /\ tokens # <<>>
  /\ tokens[1] = "*"

\* C1: a wildcard token on an array returns "[" + the present results of
\* the elements, in order, joined by single "," + "]"; dropped elements
\* leave neither text nor separator.  (Stated for arrays that keep at least
\* one element; C2 is the case that keeps none.)
C1_WildcardJoinsKept ==
  (WildcardAtRoot /\ KeptResults(fn, 0, json.root, tokens, 1) # <<>>) =>
    result = Present("[" \o JoinComma(KeptResults(fn, 0, json.root, tokens, 1))
                         \o "]")

\* C2: a wildcard token on an array in which no element yields a result
\* (the empty array included) returns the present text "[]".
C2_WildcardEmptyMatch ==
  (WildcardAtRoot /\ KeptResults(fn, 0, json.root, tokens, 1) = <<>>) =>
    result = Present("[]")

\* The value reached from v by looking up the tokens from position i on,
\* one after another: a field by its name, an element by its decimal index.
RECURSIVE Lookup(_, _, _)
Lookup(v, tokens_, i) ==
  IF i > Len(tokens_) THEN Found(v)
  ELSE IF v.k = "object"
       THEN IF \E n \in 1..Len(v.keys) : v.keys[n] = tokens_[i]
            THEN Lookup(v.items[CHOOSE n \in 1..Len(v.keys) :
                                  /\ v.keys[n] = tokens_[i]
                                  /\ \A m \in 1..(n - 1) :
                                       v.keys[m] # tokens_[i]],
                        tokens_, i + 1)
            ELSE Failed("NO_SUCH_FIELD")
  ELSE IF v.k = "array"
       THEN IF \E n \in 1..Len(v.items) : ToString(n - 1) = tokens_[i]
            THEN Lookup(v.items[CHOOSE n \in 1..Len(v.items) :
                                  ToString(n - 1) = tokens_[i]],
                        tokens_, i + 1)
            ELSE Failed("INDEX_OUT_OF_BOUNDS")
  ELSE Failed("INCORRECT_TYPE")

NoWildcard(tokens_) == \A i \in 1..Len(tokens_) : tokens_[i] # "*"

\* C3: a scalar with a token still to consume gives absent, whether the
\* scalar was reached by a field lookup, an index lookup or a wildcard.
C3_ScalarWithTokensLeft ==
  (fn = "simdJsonExtractObject" /\ ~Malformed(json)) =>
    /\ \A j \in 1..(Len(tokens) - 1) :
         LET prefix == SubSeq(tokens, 1, j) IN
         (/\ NoWildcard(prefix)
          /\ Lookup(json.root, prefix, 1).err = ""
          /\ IsScalar(Lookup(json.root, prefix, 1).val))
           => result = Absent
    /\ (/\ json.root.k = "array"
        /\ Len(tokens) >= 2
        /\ tokens[1] = "*"
        /\ json.root.items # <<>>
        /\ \A i \in 1..Len(json.root.items) : IsScalar(json.root.items[i]))
         => result = Present("[]")

\* No separator is missing in v or below it.
RECURSIVE NoBreak(_)
NoBreak(v) ==
  v.brk = 0 /\ \A i \in 1..Len(v.items) : NoBreak(v.items[i])

\* C4: at every depth and in both backends, the wildcard token on an object
\* gives absent and the wildcard token on an array gives a present result.
C4_WildcardObjectArray ==
  (fn \in Structural) =>
    /\ \A v \in SubValues(json.root) : \A i \in 0..(Len(tokens) - 1) :
         (tokens[i + 1] = "*") =>
           /\ (v.k = "object") =>
                /\ extractFromObject(i, v, tokens) = Absent
                /\ extractFromObjectOndemand(i, v, tokens) = Absent
           /\ (v.k = "array" /\ NoBreak(v)) =>
                /\ extractFromArray(i, v, tokens).st = "value"
                /\ extractFromArrayOndemand(i, v, tokens).st = "value"
    /\ (tokens # <<>> /\ tokens[1] = "*" /\ json.root.k = "object")
         => result = Absent
    /\ (tokens # <<>> /\ tokens[1] = "*" /\ json.root.k = "array"
          /\ ~Malformed(json))
         => result.st = "value"

\* C4 witness: a wildcard over an array meets an object holding a field
\* named "*" under a second wildcard; the object is dropped, the array
\* result is present.
C4_Witness ==
  /\ fn = "simdJsonExtractString"
  /\ json.root.k = "array"
  /\ ~Malformed(json)
  /\ tokens = <<"*", "*">>
  /\ \E i \in 1..Len(json.root.items) :
       /\ json.root.items[i].k = "object"
       /\ json.root.items[i].keys = <<"*">>
  /\ result = Present("[]")

\* C5: json_extract returns absent, never an error, for every malformed
\* text and every scalar root, whatever the tokens.
C5_ExtractMalformedOrScalarRoot ==
  (fn \in Structural /\ (Malformed(json) \/ IsScalar(json.root))) =>
    result = Absent

Contains == {"json_array_contains", "json_array_contains2"}
Lengths == {"json_array_length", "json_array_length2"}

\* Element e has the JSON type of the probe and an equal value.
SameTypeAndValue(e, probe) ==
  CASE probe.t = "bool" -> e.k = "boolean" /\ e.v = probe.v
    [] probe.t = "int64" ->
         e.k = "number" /\ e.nt \in {"signed", "unsigned"} /\ e.v = probe.v
    [] probe.t = "double" ->
         e.k = "number" /\ e.nt = "float" /\ e.v = probe.v
    [] OTHER -> e.k = "string" /\ e.s = probe.s

HasMatch(arr, probe) ==
  \E i \in 1..Len(arr.items) : SameTypeAndValue(arr.items[i], probe)

\* C7: json_array_contains is never NULL and never true on a failure:
\* malformed text, a non-array root and an array without a match all give
\* the non-null boolean false.
C7_ContainsFailureIsFalse ==
  (/\ fn \in Contains
   /\ \/ Malformed(json)
      \/ json.root.k # "array"
      \/ ~HasMatch(json.root, value)) =>
    result = BoolValue(FALSE)

\* C8: on a well-formed array json_array_contains is true exactly when an
\* element has the probe's JSON type and an equal value.
C8_ContainsExactType ==
  (fn \in Contains /\ ~Malformed(json) /\ json.root.k = "array") =>
    result = BoolValue(HasMatch(json.root, value))

\* C9: json_array_length is NULL for malformed text and for a non-array
\* root, and the number of top-level elements for a well-formed array.
C9_ArrayLength ==
  (fn \in Lengths) =>
    IF Malformed(json) \/ json.root.k # "array"
    THEN result = Absent
    ELSE result = IntValue(Len(json.root.items))

\* The names in keys_ quoted, in order.
RECURSIVE Quoted(_)
Quoted(keys_) ==
  IF keys_ = <<>> THEN <<>>
  ELSE <<"\"" \o Head(keys_) \o "\"">> \o Quoted(Tail(keys_))

\* C10: json_keys on an object root returns the array literal of the quoted
\* field names in declaration order, "[]" for the empty object; NULL on
\* malformed text or a non-object root.
C10_JsonKeys ==
  (fn = "json_keys") =>
    IF Malformed(json) \/ json.root.k # "object"
    THEN result = Absent
    ELSE result = Present("[" \o JoinComma(Quoted(json.root.keys)) \o "]")

\* C11: is_json_scalar gives the non-null boolean false, and no error, for
\* every text that fails to parse and for every object or array root, and
\* true exactly for a well-formed number, string, boolean or null root.
C11_IsJsonScalar ==
  (fn = "is_json_scalar") =>
    result = BoolValue(~Malformed(json) /\ IsScalar(json.root))

\* C12: json_size gives the element count of an array target and the field
\* count of an object target, and null for a malformed text and for a path
\* that resolves to no value.  Stated for container roots: what a scalar
\* root gives depends on the simdjson release.
C12_JsonSize ==
  (fn = "json_size" /\ IsContainer(json.root)) =>
    LET target == Lookup(json.root, tokens, 1) IN
    /\ Malformed(json) => result = Absent
    /\ (~Malformed(json) /\ target.err # "") => result = Absent
    /\ (~Malformed(json) /\ target.err = "" /\ target.val.k = "array")
         => result = IntValue(Len(target.val.items))
    /\ (~Malformed(json) /\ target.err = "" /\ target.val.k = "object")
         => result = IntValue(Len(target.val.keys))

\* C13: the strict json_parse gives the canonical text for every valid JSON
\* text and raises a user error for every malformed one; it is never null.
C13_StrictParse ==
  (fn = "json_parse2") =>
    IF Malformed(json) THEN result.st = "error"
    ELSE result = Present(to_string(json.root))

(***************************************************************************)
(* The token cache and the batch (SpecCache).                              *)
(***************************************************************************)
\* The operation just run stored a path in the cache.
Inserted ==
  /\ op' \in {"initialize", "miss"}
  /\ result' # InvalidPath
  /\ <<op, jsonPath, tokensCache, rows, result>>'
       # <<op, jsonPath, tokensCache, rows, result>>

\* C14: the cache never holds more than kMaxCacheNum entries, and an
\* insertion into a cache of exactly kMaxCacheNum entries erases exactly one
\* existing entry first.
C14_CacheBounded ==
  /\ [](Cardinality(DOMAIN tokensCache) <= kMaxCacheNum)
  /\ [][(Inserted /\ Cardinality(DOMAIN tokensCache) = kMaxCacheNum) =>
          \E v \in DOMAIN tokensCache :
            DOMAIN tokensCache' = (DOMAIN tokensCache \ {v}) \cup {jsonPath'}
       ]_vars

\* C14 witness: a call missed on a full cache, one entry went and the cache
\* is full again.
C14_Witness ==
  /\ op = "miss"
  /\ evicted # NoKey
  /\ evicted \notin DOMAIN tokensCache
  /\ jsonPath \in DOMAIN tokensCache
  /\ Cardinality(DOMAIN tokensCache) = kMaxCacheNum

\* C15: in call, a hit uses the cached tokens and leaves the cache as it is;
\* a miss that tokenizes makes the path a key mapped to its tokens; a miss
\* that fails to tokenize raises InvalidPath and leaves the cache as it is.
C15_CallFrame ==
  [][(rows' = rows + 1 /\ fn \in CachedFns) =>
       LET t == tokenize(jsonPath') IN
       /\ (jsonPath' \in DOMAIN tokensCache) =>
            /\ tokensCache' = tokensCache
            /\ tokens' = tokensCache[jsonPath']
       /\ (jsonPath' \notin DOMAIN tokensCache /\ t.ok) =>
            /\ jsonPath' \in DOMAIN tokensCache'
            /\ tokensCache'[jsonPath'] = t.token
            /\ tokens' = t.token
       /\ (jsonPath' \notin DOMAIN tokensCache /\ ~t.ok) =>
            /\ result' = InvalidPath
            /\ tokensCache' = tokensCache
    ]_vars

\* C15 witness: a hit on a full cache, nothing erased.
C15_Witness ==
  /\ op = "hit"
  /\ evicted = NoKey
  /\ Cardinality(DOMAIN tokensCache) = kMaxCacheNum

\* What call gives when every lookup misses and tokenizes again.
Uncached(f, doc, p) ==
  IF tokenize(p).ok THEN Evaluate(f, doc, tokenize(p).token)
  ELSE {InvalidPath}

\* C16: every cached entry is the tokenization of its key, and every row's
\* result is one the function gives without the cache.
C16_CacheIndependence ==
  /\ \A k \in DOMAIN tokensCache :
       tokenize(k).ok /\ tokensCache[k] = tokenize(k).token
  /\ (op \in {"hit", "miss"}) => result \in Uncached(fn, json, jsonPath)

\* C16 witness: a row served from the cache after other rows, with a value.
C16_Witness ==
  /\ op = "hit"
  /\ rows >= 2
  /\ tokens # <<>>
  /\ result.st = "value"

\* C17: a literal path that does not tokenize makes initialize raise
\* InvalidPath and insert nothing, and no operation follows: no call runs
\* and no row is written.
C17_InitializeFailure ==
  /\ [](pc = "failed" =>
          /\ op = "initialize"
          /\ result = InvalidPath
          /\ rows = 0)
  /\ [][/\ pc # "failed"
        /\ (op' = "initialize" /\ ~tokenize(jsonPath').ok) =>
             /\ pc' = "failed"
             /\ tokensCache' = tokensCache
       ]_vars

\* C17 witness: initialize failed on the unbalanced path after an earlier
\* initialize had filled the cache.
C17_Witness ==
  /\ pc = "failed"
  /\ jsonPath = "$.a["
  /\ tokensCache # EmptyCache
  /\ rows = 0

\* What the row gives on an instance that has seen no other row.
RowAlone(f, doc, p) ==
  IF f \in VectorFns THEN {JsonParseFunction_apply(doc)}
  ELSE UNION {IF o.ok THEN Evaluate(f, doc, o.token) ELSE {InvalidPath} :
                o \in ResolveTokens(EmptyCache, p)}

\* C19: the output of a row is one the row gives alone, whatever rows came
\* before it, and a row that failed leaves the instance ready for the next
\* row.
C19_RowIsolation ==
  /\ (op \in {"hit", "miss", "apply"}) =>
       result \in RowAlone(fn, json, jsonPath)
  /\ RowFailed => pc = "ready"

\* C19 witness: a row evaluated to a value after a row of the same batch
\* had failed.
C19_Witness ==
  /\ afterFailure
  /\ op \in {"hit", "miss", "apply"}
  /\ result.st = "value"
  /\ pc = "ready"

\* C18: the evaluation of a row ends in a value or NULL: no error of the
\* parser backend leaves a row function.  (The strict json_parse, whose
\* user error is its contract, is left out.)
C18_NoErrorLeavesRow ==
  (fn \notin {"idle", "json_parse2"}) => result.st \in {"value", "null"}

\* C20: under every interleaving of two threads, each instance gets from
\* tokenize what it gets when it runs alone.
C20_ThreadsIndependent ==
  \A i \in Threads :
    (thread[i].pc = "done") =>
      /\ thread[i].ok = tokenize(thread[i].path).ok
      /\ thread[i].token = tokenize(thread[i].path).token

(***************************************************************************)
(* Reading a JSON text back (the round trip of structural extraction).     *)
(***************************************************************************)
\* The n characters of str from position i, "" when str ends before them.
Text(str, i, n) ==
  IF i >= 1 /\ i + n - 1 <= Len(str) THEN SubSeq(str, i, i + n - 1) ELSE ""

\* First position from i on that holds no blank.
RECURSIVE SkipBlanks(_, _)
SkipBlanks(str, i) ==
  IF CharAt(str, i) = " " THEN SkipBlanks(str, i + 1) ELSE i

\* First position from i on that holds no decimal digit.
RECURSIVE DigitsEnd(_, _)
DigitsEnd(str, i) ==
  IF DigitOf(CharAt(str, i)) <= 9 THEN DigitsEnd(str, i + 1) ELSE i

\* The digits of a fraction without its trailing zeros.
RECURSIVE TrimZeros(_)
TrimZeros(str) ==
  IF str # "" /\ CharAt(str, Len(str)) = "0"
  THEN TrimZeros(SubSeq(str, 1, Len(str) - 1))
  ELSE str

\* A step of the reader: the value read and the position after it.
Parsed(val, next) == [ok |-> TRUE, val |-> val, next |-> next]
NoParse == [ok |-> FALSE, val |-> JNull, next |-> 0]

\* number = [ "-" ] int [ "." digits ]; no leading zero.  A float keeps the
\* significant digits of its fraction in s.
ParseNumber(str, i) ==
  LET from == IF CharAt(str, i) = "-" THEN i + 1 ELSE i
      to == DigitsEnd(str, from)
      int == ReadIndex(SubSeq(str, from, to - 1), 1, 0).idx
      v == IF from > i THEN 0 - int ELSE int
      fto == IF CharAt(str, to) = "." THEN DigitsEnd(str, to + 1) ELSE to
  IN IF to = from THEN NoParse
     ELSE IF to - from > 1 /\ CharAt(str, from) = "0" THEN NoParse
     ELSE IF CharAt(str, to) # "."
          THEN Parsed(IF v > UInt64Max THEN [JInt(v) EXCEPT !.nt = "big"]
                      ELSE JInt(v), to)
     ELSE IF fto = to + 1 THEN NoParse
     ELSE Parsed([JFlt(v, SubSeq(str, i, fto - 1)) EXCEPT
                    !.s = TrimZeros(SubSeq(str, to + 1, fto - 1))], fto)

\* Position of the quote that closes the string whose content starts at i;
\* 0 when there is none or an escape is not one of JSON's.
RECURSIVE StringEnd(_, _)
StringEnd(str, i) ==
  IF i > Len(str) THEN 0
  ELSE IF CharAt(str, i) = "\"" THEN i
  ELSE IF CharAt(str, i) = "\\"
       THEN IF CharAt(str, i + 1) \in {"\"", "\\", "/", "b", "f", "n", "r", "t"}
            THEN StringEnd(str, i + 2)
            ELSE 0
  ELSE StringEnd(str, i + 1)

\* string = quote characters quote (the texts of the model hold no valid
\* escape, so the content is the string).
ParseString(str, i) ==
  LET close == StringEnd(str, i + 1) IN
  IF CharAt(str, i) # "\"" \/ close = 0 THEN NoParse
  ELSE Parsed(JStr(SubSeq(str, i + 1, close - 1)), close + 1)

RECURSIVE ParseValue(_, _)
RECURSIVE ParseElements(_, _, _)
RECURSIVE ParseFields(_, _, _, _)

\* value = object | array | string | number | "true" | "false" | "null"
ParseValue(str, at) ==
  LET i == SkipBlanks(str, at)
      c == CharAt(str, i)
  IN CASE c = "[" ->
            IF CharAt(str, SkipBlanks(str, i + 1)) = "]"
            THEN Parsed(JArr(<<>>), SkipBlanks(str, i + 1) + 1)
            ELSE ParseElements(str, i + 1, <<>>)
       [] c = "{" ->
            IF CharAt(str, SkipBlanks(str, i + 1)) = "}"
            THEN Parsed(JObj(<<>>, <<>>), SkipBlanks(str, i + 1) + 1)
            ELSE ParseFields(str, i + 1, <<>>, <<>>)
       [] c = "\"" -> ParseString(str, i)
       [] c = "t" ->
            IF Text(str, i, 4) = "true" THEN Parsed(JBool(TRUE), i + 4)
            ELSE NoParse
       [] c = "f" ->
            IF Text(str, i, 5) = "false" THEN Parsed(JBool(FALSE), i + 5)
            ELSE NoParse
       [] c = "n" ->
            IF Text(str, i, 4) = "null" THEN Parsed(JNull, i + 4) ELSE NoParse
       [] OTHER -> ParseNumber(str, i)

\* elements = value *( "," value ) "]"
ParseElements(str, at, items) ==
  LET e == ParseValue(str, at)
      i == SkipBlanks(str, e.next)
  IN IF ~e.ok THEN NoParse
     ELSE IF CharAt(str, i) = ","
          THEN ParseElements(str, i + 1, Append(items, e.val))
     ELSE IF CharAt(str, i) = "]"
          THEN Parsed(JArr(Append(items, e.val)), i + 1)
     ELSE NoParse

\* members = string ":" value *( "," string ":" value ) "}"
ParseFields(str, at, keys, items) ==
  LET k == ParseString(str, SkipBlanks(str, at))
      colon == SkipBlanks(str, k.next)
      e == ParseValue(str, colon + 1)
      i == SkipBlanks(str, e.next)
  IN IF ~k.ok \/ CharAt(str, colon) # ":" THEN NoParse
     ELSE IF ~e.ok THEN NoParse
     ELSE IF CharAt(str, i) = ","
          THEN ParseFields(str, i + 1, Append(keys, k.val.s),
                           Append(items, e.val))
     ELSE IF CharAt(str, i) = "}"
          THEN Parsed(JObj(Append(keys, k.val.s), Append(items, e.val)), i + 1)
     ELSE NoParse

\* The document a JSON text denotes: one value and nothing after it.
ParseJson(text) ==
  LET p == ParseValue(text, 1) IN
  IF p.ok /\ SkipBlanks(text, p.next) = Len(text) + 1 THEN Found(p.val)
  ELSE Failed("TAPE_ERROR")

\* The structure of a value: its type, number, string, field names and
\* elements, without the spelling of the source text.
RECURSIVE Structure(_)
Structure(v) ==
  [k |-> v.k, nt |-> v.nt, v |-> v.v, s |-> v.s, keys |-> v.keys,
   items |-> [i \in 1..Len(v.items) |-> Structure(v.items[i])]]

\* The sub-document the tokens from pathIndex on navigate to from v: the
\* value itself when no token is left (or v is a scalar, where the code
\* stops), the field or element a token names, and for a wildcard over an
\* array the array of the sub-documents of the elements that have one.
RECURSIVE SubDocument(_, _, _)
SubDocument(pathIndex, v, tokens_) ==
  IF pathIndex = Len(tokens_) \/ ~IsContainer(v) THEN Found(v)
  ELSE IF tokens_[pathIndex + 1] = "*"
  THEN IF v.k = "object" THEN Failed("NO_SUCH_FIELD")
       ELSE LET RECURSIVE Kept(_)
                Kept(i) ==
                  IF i > Len(v.items) THEN <<>>
                  ELSE LET d == SubDocument(pathIndex + 1, v.items[i], tokens_)
                       IN (IF d.err = "" THEN <<d.val>> ELSE <<>>)
                            \o Kept(i + 1)
            IN Found(JArr(Kept(1)))
  ELSE LET r == Lookup(v, <<tokens_[pathIndex + 1]>>, 1) IN
       IF r.err # "" THEN r
       ELSE SubDocument(pathIndex + 1, r.val, tokens_)

\* C21: every present text of structural extraction is well-formed JSON and
\* reads back as the navigated sub-document (for a wildcard step, the array
\* of the kept elements' sub-documents).
C21_RoundTrip ==
  (fn \in Structural /\ result.st = "value") =>
    LET p == ParseJson(result.text)
        d == SubDocument(0, json.root, tokens)
    IN /\ p.err = ""
       /\ d.err = ""
       /\ Structure(p.val) = Structure(d.val)

\* The rendering of value v in the backend function f names.
Rendering(f, v) ==
  IF f = "simdJsonExtractObject" THEN to_string(v) ELSE to_json_string(v)

\* The code's step on container v with the token after pathIndex.
Step(f, pathIndex, v, tokens_) ==
  IF f = "simdJsonExtractObject"
  THEN IF v.k = "object" THEN extractFromObject(pathIndex, v, tokens_)
       ELSE extractFromArray(pathIndex, v, tokens_)
  ELSE IF v.k = "object" THEN extractFromObjectOndemand(pathIndex, v, tokens_)
       ELSE extractFromArrayOndemand(pathIndex, v, tokens_)

\* The values the navigation stands on after the first i tokens of the
\* row: the root, the field or element a token names, and under a wildcard
\* every element of an array.
RECURSIVE Reached(_)
Reached(i) ==
  IF i = 0 THEN {json.root}
  ELSE UNION {
         IF ~IsContainer(u) THEN {}
         ELSE IF tokens[i] = "*"
         THEN IF u.k = "array" THEN {u.items[n] : n \in 1..Len(u.items)}
              ELSE {}
         ELSE LET child == Lookup(u, <<tokens[i]>>, 1) IN
              IF child.err = "" THEN {child.val} ELSE {}
         : u \in Reached(i - 1)}

C23_BackendEquivalence ==
  (fn \in Structural) =>
    simdJsonExtractString(json, tokens) = simdJsonExtractObject(json, tokens)

\* The tokens each prefixed with "/" and concatenated in token order.
RECURSIVE SlashJoined(_)
SlashJoined(tokens_) ==
  IF tokens_ = <<>> THEN ""
  ELSE "/" \o Head(tokens_) \o SlashJoined(Tail(tokens_))

\* What scalar extraction gives for the value target.
ScalarText(target) ==
  IF target.err # "" THEN Absent
  ELSE IF target.val.k = "string" THEN Present(target.val.s)
  ELSE IF IsScalar(target.val) THEN Present(target.val.raw)
  ELSE Absent

\* What json_size gives for the value target.
SizeValue(target) ==
  IF target.err # "" THEN Absent
  ELSE IF IsContainer(target.val) THEN IntValue(Len(target.val.items))
  ELSE IntValue(0)

\* C24: scalar extraction and json_size build one pointer, "/" + token for
\* each token in order (["a","0","b"] gives "/a/0/b", no token the empty
\* pointer, which is the root), and the value the pointer finds is the value
\* reached by looking up the tokens one after another from the root.
C24_PointerLookup ==
  /\ JsonPointer(<<"a", "0", "b">>, 1, "") = "/a/0/b"
  /\ JsonPointer(tokens, 1, "") = SlashJoined(tokens)
  /\ (fn = "extractScalar") =>
       result = ScalarText(Lookup(json.root, tokens, 1))
  /\ (fn = "getJsonSize") =>
       result = SizeValue(Lookup(json.root, tokens, 1))

\* The path texts that spell the tokens from position i on, each token as
\* a dotted component or a bracketed one.
RECURSIVE Spellings(_, _)
Spellings(tokens_, i) ==
  IF i > Len(tokens_) THEN {""}
  ELSE UNION {{"." \o tokens_[i] \o rest, "[" \o tokens_[i] \o "]" \o rest} :
                rest \in Spellings(tokens_, i + 1)}

\* The path texts whose tokens, left to right, are tokens_: with the root
\* marker, or without it (the first component may then stand bare).
PathsOf(tokens_) ==
  {"$" \o body : body \in Spellings(tokens_, 1)}
    \cup Spellings(tokens_, 1)
    \cup (IF tokens_ = <<>> THEN {}
          ELSE {tokens_[1] \o rest : rest \in Spellings(tokens_, 2)})

\* Number of characters c in str from position i on.
RECURSIVE CountChar(_, _, _)
CountChar(str, c, i) ==
  IF i > Len(str) THEN 0
  ELSE (IF CharAt(str, i) = c THEN 1 ELSE 0) + CountChar(str, c, i + 1)

\* C25: tokenize fails for the empty path and for a path with an unbalanced
\* bracket; a failure leaves no token in the vector, also when tokens had
\* been pushed before the token that failed; a success leaves exactly the
\* tokens the path spells, in left-to-right order.
C25_TokenizeAllOrNothing ==
  (fn = "tokenize") =>
    /\ (jsonPath = "") => ~result.flag
    /\ (CountChar(jsonPath, "[", 1) # CountChar(jsonPath, "]", 1))
         => ~result.flag
    /\ ~result.flag => tokens = <<>>
    /\ result.flag =>
         /\ jsonPath \in PathsOf(tokens)
         /\ \A i \in 1..Len(tokens) : tokens[i] # ""

\* C25 witness: the path fails at its second token, after the first token
\* had been pushed, and the vector is empty.
C25_Witness ==
  /\ fn = "tokenize"
  /\ jsonPath = "$.a["
  /\ ~result.flag
  /\ tokens = <<>>

\* C26: a successful initialize leaves its path as a key of the cache; the
\* call that follows with the same path text is a hit and leaves the cache
\* as it is; a path that is a key is never tokenized again, and a key leaves
\* the cache only as the entry erased when another path is inserted into
\* the full cache.
C26_LiteralPathPrimed ==
  /\ []((op = "initialize" /\ pc = "ready") => jsonPath \in DOMAIN tokensCache)
  /\ [][(op = "initialize" /\ pc = "ready" /\ rows' = rows + 1
           /\ jsonPath' = jsonPath) =>
          (op' = "hit" /\ tokensCache' = tokensCache)]_vars
  /\ [][(rows' = rows + 1 /\ fn \in CachedFns
           /\ jsonPath' \in DOMAIN tokensCache) => op' = "hit"]_vars
  /\ [][\A k \in DOMAIN tokensCache :
          (k \notin DOMAIN tokensCache') =>
            /\ op' \in {"initialize", "miss"}
            /\ evicted' = k
            /\ jsonPath' # k
            /\ jsonPath' \in DOMAIN tokensCache'
            /\ Cardinality(DOMAIN tokensCache) = kMaxCacheNum]_vars

\* C26 witness: the first row after initialize was served from the cache.
C26_Witness ==
  /\ op = "hit"
  /\ rows = 1
  /\ tokens # <<>>
  /\ jsonPath \in DOMAIN tokensCache
  /\ result.st = "value"

\* The row functions that write text.
TextFns ==
  {"simdJsonExtractObject", "simdJsonExtractString", "simdJsonExtractScalar",
   "extractScalar", "json_keys", "json_parse", "json_parse2"}

\* C27: the text a row function hands to the engine was copied while the
\* buffer it was rendered into was alive: no output value shows the content
\* of a released buffer.
C27_NoReleasedBuffer ==
  (fn \in TextFns /\ result.st = "value") => result.text # Freed

\* C28: with an int64 probe, json_array_contains is true only when an
\* integer element has the probe's mathematical value; an array holding
\* only elements above the largest int64 matches no int64 probe, a negative
\* probe of the same bit pattern included.
C28_SignedProbeUnsignedElement ==
  (/\ fn \in Contains
   /\ value.t = "int64"
   /\ ~Malformed(json)
   /\ json.root.k = "array") =>
    /\ result.flag =>
         \E i \in 1..Len(json.root.items) :
           /\ json.root.items[i].k = "number"
           /\ json.root.items[i].nt \in {"signed", "unsigned"}
           /\ json.root.items[i].v = value.v
    /\ (\A i \in 1..Len(json.root.items) :
          json.root.items[i].nt = "unsigned") => ~result.flag

\* C29: for a well-formed text and a path that resolves to a scalar,
\* json_size gives the non-null size 0, never null.
C29_SizeOfScalarIsZero ==
  (/\ fn = "json_size"
   /\ ~Malformed(json)
   /\ Lookup(json.root, tokens, 1).err = ""
   /\ IsScalar(Lookup(json.root, tokens, 1).val)) =>
    result = IntValue(0)

(***************************************************************************)
(* The decoder's jobs                                                      *)
(***************************************************************************)

\* The jobs taken from the pool and not given back.
HeldJobs == {j \in DOMAIN qpl_job_pool : qpl_job_pool[j] # "free"}

\* C30: whenever the decoder is between calls, after any sequence of
\* readWithVisitor, decodeWithVisitor and filterWithVisitor, no job it
\* acquired is still held, and processRun has never been handed the values
\* while a submitted job was still being processed.
C30_JobsReleasedBeforeReturn ==
  /\ decoder.pc = "idle" => HeldJobs = {}
  /\ handed # "busy"

====
